---- MODULE Spec2Model ----
(***************************************************************************)
(* A model of brosel (src/brosel.py): the Config loader and the rule       *)
(* evaluation of select_and_open, driven by the main block.                *)
(*                                                                         *)
(* Python values are records [kind, str]: kind is the Python type          *)
(* ("str", "int", "null" for None) or "absent" for a key that is not in a  *)
(* mapping; str is the text of a string, a sequence of symbols, and <<>>   *)
(* for every other kind.  A URL or a pattern is a sequence of characters,  *)
(* a browser id is the sequence of the words of its command line.          *)
(***************************************************************************)
EXTENDS Naturals, Sequences, FiniteSets

VARIABLES
    doc,               \* the configuration document on disk
    args,              \* sys.argv[1:]
    pc,                \* position in the main block / in select_and_open
    cfg,               \* the Config object: browser_default, rules
    loads,             \* number of load_from_file calls made on cfg
    argi,              \* number of arguments the main loop has finished
    url,               \* select_and_open: url
    selected_browser,  \* select_and_open: selected_browser (the id it was got from)
    ri,                \* select_and_open: index of the next rule of the for loop
    matched,           \* indices of the rules whose p.search(url) succeeded in this call
    opened,            \* the open_new_tab calls made so far, in order
    exc                \* the uncaught exception that ended the program, or "none"

vars == <<doc, args, pc, cfg, loads, argi, url, selected_browser, ri, matched,
          opened, exc>>

(*************************** bounds of the model ***************************)
MaxRules == 2
MaxArgs == 2
MaxLoads == 2

(******************************* values ************************************)
Absent == [kind |-> "absent", str |-> <<>>]
Null == [kind |-> "null", str |-> <<>>]
Int == [kind |-> "int", str |-> <<>>]
Str(s) == [kind |-> "str", str |-> s]

isinstance_basestring(v) == v.kind = "str"

BROWSER_DEFAULT == Str(<<"open", "-a", "Safari", "%s">>)

Chrome == <<"open", "-a", "Chrome", "%s">>
Firefox == <<"firefox">>
NoSuch == <<"nosuch">>

\* the names webbrowser has a registered, runnable browser for
Registered == {Firefox}

(***************************** the re module *******************************)
Range(s) == {s[k] : k \in 1..Len(s)}

\* re.compile(pattern) succeeds; an unclosed group raises re.error
Compiles(p) == "(" \notin Range(p)

\* p matches s at position i
MatchAt(p, s, i) ==
    /\ i + Len(p) - 1 <= Len(s)
    /\ \A k \in 1..Len(p) : p[k] = s[i + k - 1]

\* p.search(s): a match anywhere in s
Search(p, s) == \E i \in 1..Len(s) : MatchAt(p, s, i)

RECURSIVE Expand(_, _)
\* the replacement template t expanded for the matched text m
Expand(t, m) ==
    IF t = <<>> THEN <<>>
    ELSE (IF Head(t) = "\\g<0>" THEN m ELSE <<Head(t)>>) \o Expand(Tail(t), m)

RECURSIVE SubFrom(_, _, _, _)
SubFrom(p, t, s, i) ==
    IF i > Len(s) THEN <<>>
    ELSE IF MatchAt(p, s, i)
         THEN Expand(t, SubSeq(s, i, i + Len(p) - 1)) \o SubFrom(p, t, s, i + Len(p))
         ELSE <<s[i]>> \o SubFrom(p, t, s, i + 1)

\* p.sub(t, s): every non-overlapping match of p in s, leftmost first, replaced
Sub(p, t, s) == SubFrom(p, t, s, 1)

(**************************** webbrowser.get *******************************)
\* webbrowser.get(using) returns a browser: a command line holding %s always
\* does, a name only when registered, None means the system's default
\* browser; any other value raises TypeError ('%s' in using)
GetError(v) ==
    CASE v.kind = "str" ->
           IF "%s" \in Range(v.str) \/ v.str \in Registered THEN "none"
           ELSE "webbrowser.Error"
      [] v.kind = "null" -> "none"
      [] OTHER -> "TypeError"

(***************************** Config **************************************)
\* KeepRule without the len(r) > 0 test: every mapping is appended
KeepRuleAlways(r) == TRUE

\* len(r) > 0 for the dict r built from one element of rules
KeepRule(r) ==
    \/ r.browser_id.kind # "absent"
    \/ r.url_pattern.kind # "absent"
    \/ r.url_replace.kind # "absent"

\* the dict r built from the mapping e: r[k] = r_data[k] for the keys e has
RuleOf(e) ==
    [browser_id |-> e.browser_id, url_pattern |-> e.url_pattern,
     url_replace |-> e.url_replace]

RECURSIVE LoadRules(_, _)
\* the for loop over rules_data, from the list rules: an element that is no
\* mapping raises TypeError at r_data[k], which ends the loop
LoadRules(rules, items) ==
    IF items = <<>> THEN rules
    ELSE LET e == Head(items) IN
         IF e.kind # "map" THEN rules
         ELSE LoadRules(IF KeepRule(RuleOf(e)) THEN Append(rules, RuleOf(e)) ELSE rules,
                        Tail(items))

\* yaml_data['basic']['browser_id'], or the old value on KeyError / TypeError
LoadDefault(old, d) ==
    IF d.kind = "map" /\ d.basic.kind = "map" /\ d.basic.browser_id.kind # "absent"
    THEN d.basic.browser_id
    ELSE old

\* Config.load_from_file on the Config c with the document d
load_from_file(c, d) ==
    [browser_default |-> LoadDefault(c.browser_default, d),
     rules |-> IF d.kind = "map" /\ d.rules.kind = "seq"
               THEN LoadRules(c.rules, d.rules.items)
               ELSE c.rules]

\* Config(): the defaults, then the file find_cfg_file found, if any
NewConfig(d) ==
    LET c0 == [browser_default |-> BROWSER_DEFAULT, rules |-> <<>>] IN
    IF d.kind = "nofile" THEN c0 ELSE load_from_file(c0, d)

NoConfig == [browser_default |-> Absent, rules |-> <<>>]

(*************************** the inputs ************************************)
NoBasic == [kind |-> "absent", browser_id |-> Absent]
NoRules == [kind |-> "absent", items |-> <<>>]
\* a `basic` mapping with the value v under browser_id (Absent: without the key)
BasicMap(v) == [kind |-> "map", browser_id |-> v]
\* a `rules` sequence
RulesSeq(items) == [kind |-> "seq", items |-> items]
\* an element of rules that is a mapping / that is not one
Elem(b, p, t) == [kind |-> "map", browser_id |-> b, url_pattern |-> p, url_replace |-> t]
NonMapElem == [kind |-> "int", browser_id |-> Absent, url_pattern |-> Absent,
               url_replace |-> Absent]
\* a document that is a mapping / no file at either location / a file that
\* cannot be read or parsed, or is empty (yaml_data None) / another YAML value
MapDoc(b, r) == [kind |-> "map", basic |-> b, rules |-> r]
NoFile == [kind |-> "nofile", basic |-> NoBasic, rules |-> NoRules]
NullDoc == [kind |-> "null", basic |-> NoBasic, rules |-> NoRules]
ScalarDoc == [kind |-> "str", basic |-> NoBasic, rules |-> NoRules]

SeqsUpTo(S, n) == UNION {[1..k -> S] : k \in 0..n}

PatA == <<"a">>
PatB == <<"b">>
PatBad == <<"(">>
Tmpl == <<"\\g<0>", "b">>
URLs == {<<"a", "a">>, <<"b">>}

\* the rule mappings of the documents the main program is run on
RuleElems ==
    {Elem(b, Str(p), t) : b \in {Absent, Str(Firefox)}, p \in {PatA, PatB},
                          t \in {Absent, Str(Tmpl)}}
    \cup {Elem(Str(Chrome), Str(PatA), Absent), Elem(Str(Chrome), Absent, Absent),
          Elem(Str(Firefox), Str(PatBad), Str(Tmpl)), Elem(Str(Firefox), Int, Str(Tmpl)),
          Elem(Str(Firefox), Str(PatA), Int), Elem(Int, Str(PatA), Str(Tmpl)),
          Elem(Str(NoSuch), Str(PatA), Absent), Elem(Absent, Absent, Absent)}

Docs ==
    {NoFile, NullDoc, ScalarDoc} \cup
    {MapDoc(b, RulesSeq(items)) :
        b \in {NoBasic, BasicMap(Str(Chrome)), BasicMap(Int), BasicMap(Null)},
        items \in SeqsUpTo(RuleElems, MaxRules)}

\* the elements of rules of the documents the loader is run on: every
\* combination of a missing, a wrong-typed and a string field, and a
\* non-mapping
LoadElems ==
    {Elem(b, p, t) : b \in {Absent, Int, Str(Firefox)}, p \in {Absent, Int, Str(PatA)},
                     t \in {Absent, Int, Str(Tmpl)}}
    \cup {NonMapElem}

LoadDocs ==
    {NoFile, NullDoc, ScalarDoc} \cup
    {MapDoc(b, r) :
        b \in {NoBasic, [kind |-> "str", browser_id |-> Absent], BasicMap(Absent),
               BasicMap(Str(Chrome)), BasicMap(Int), BasicMap(Null)},
        r \in {NoRules, [kind |-> "null", items |-> <<>>]}
              \cup {RulesSeq(items) : items \in SeqsUpTo(LoadElems, MaxRules)}}

(**************************** the program **********************************)
InitWith(docs, arglists) ==
    /\ doc \in docs
    /\ args \in arglists
    /\ pc = "start"
    /\ cfg = NoConfig
    /\ loads = 0
    /\ argi = 0
    /\ url = <<>>
    /\ selected_browser = Absent
    /\ ri = 0
    /\ matched = {}
    /\ opened = <<>>
    /\ exc = "none"

Init == InitWith(Docs, SeqsUpTo(URLs, MaxArgs))

\* cfg = Config()
Construct ==
    /\ pc = "start"
    /\ cfg' = NewConfig(doc)
    /\ loads' = IF doc.kind = "nofile" THEN 0 ELSE 1
    /\ pc' = "args"
    /\ UNCHANGED <<doc, args, argi, url, selected_browser, ri, matched, opened, exc>>

\* InitialBrowser with the constant in place of the configured default
InitialBrowserHardCoded(c) == BROWSER_DEFAULT

\* the browser select_and_open starts from
InitialBrowser(c) == c.browser_default

\* for arg in args: select_and_open(arg, cfg), up to the for loop over the rules
Select ==
    /\ pc = "args"
    /\ argi < Len(args)
    /\ url' = args[argi + 1]
    /\ matched' = {}
    /\ ri' = 1
    /\ IF GetError(InitialBrowser(cfg)) = "none"
       THEN /\ selected_browser' = InitialBrowser(cfg)
            /\ pc' = "rules"
            /\ exc' = "none"
       ELSE /\ selected_browser' = Absent
            /\ pc' = "raised"
            /\ exc' = GetError(InitialBrowser(cfg))
    /\ UNCHANGED <<doc, args, cfg, loads, argi, opened>>

\* rule r has a string url_pattern that compiles and is found in u
Matches(r, u) ==
    /\ isinstance_basestring(r.url_pattern)
    /\ Compiles(r.url_pattern.str)
    /\ Search(r.url_pattern.str, u)

\* url after the body of the loop for rule r, m telling whether r matched
StepUrl(r, u, m) ==
    IF m /\ isinstance_basestring(r.url_replace)
    THEN Sub(r.url_pattern.str, r.url_replace.str, u)
    ELSE u

\* StepBrowser with `elif` for the second `if`: a rule that rewrites the URL
\* does not set the browser
StepBrowserElif(r, b, m) ==
    IF m /\ ~isinstance_basestring(r.url_replace) /\ isinstance_basestring(r.browser_id)
    THEN r.browser_id
    ELSE b

\* StepBrowser with the browser_id test outside `if p.search(url)`
StepBrowserAlways(r, b, m) ==
    IF isinstance_basestring(r.browser_id) THEN r.browser_id ELSE b

\* the id selected_browser is got from after the body of the loop for rule r
StepBrowser(r, b, m) ==
    IF m /\ isinstance_basestring(r.browser_id) THEN r.browser_id ELSE b

\* the exception the body of the loop raises for rule r on u, or "none"
StepError(r, u) ==
    IF isinstance_basestring(r.url_pattern) /\ ~Compiles(r.url_pattern.str)
    THEN "re.error"
    ELSE IF Matches(r, u) /\ isinstance_basestring(r.browser_id)
         THEN GetError(r.browser_id)
         ELSE "none"

\* RuleStep with the rule matched against, and its substitution applied to,
\* the argument select_and_open was called with
RuleStepOnInput ==
    /\ pc = "rules"
    /\ ri <= Len(cfg.rules)
    /\ LET r == cfg.rules[ri]
           m == Matches(r, args[argi + 1])
       IN /\ url' = StepUrl(r, args[argi + 1], m)
          /\ matched' = IF m THEN matched \cup {ri} ELSE matched
          /\ exc' = StepError(r, args[argi + 1])
          /\ IF StepError(r, args[argi + 1]) = "none"
             THEN /\ selected_browser' = StepBrowser(r, selected_browser, m)
                  /\ ri' = ri + 1
                  /\ pc' = "rules"
             ELSE /\ pc' = "raised"
                  /\ UNCHANGED <<selected_browser, ri>>
    /\ UNCHANGED <<doc, args, cfg, loads, argi, opened>>

\* one pass of `for r in cfg.rules`
RuleStep ==
    /\ pc = "rules"
    /\ ri <= Len(cfg.rules)
    /\ LET r == cfg.rules[ri]
           m == Matches(r, url)
       IN /\ url' = StepUrl(r, url, m)
          /\ matched' = IF m THEN matched \cup {ri} ELSE matched
          /\ exc' = StepError(r, url)
          /\ IF StepError(r, url) = "none"
             THEN /\ selected_browser' = StepBrowser(r, selected_browser, m)
                  /\ ri' = ri + 1
                  /\ pc' = "rules"
             ELSE /\ pc' = "raised"
                  /\ UNCHANGED <<selected_browser, ri>>
    /\ UNCHANGED <<doc, args, cfg, loads, argi, opened>>

\* selected_browser.open_new_tab(url), and back to the loop over the arguments
Open ==
    /\ pc = "rules"
    /\ ri > Len(cfg.rules)
    /\ opened' = Append(opened, [browser |-> selected_browser, url |-> url])
    /\ argi' = argi + 1
    /\ pc' = "args"
    /\ UNCHANGED <<doc, args, cfg, loads, url, selected_browser, ri, matched, exc>>

\* the loop over the arguments is over: the program ends
Exit ==
    /\ pc = "args"
    /\ argi = Len(args)
    /\ pc' = "exit"
    /\ UNCHANGED <<doc, args, cfg, loads, argi, url, selected_browser, ri, matched,
                   opened, exc>>

Next == Construct \/ Select \/ RuleStep \/ Open \/ Exit

Spec == Init /\ [][Next]_vars

(************************ the loader on its own ****************************)
\* a further cfg.load_from_file(fn) on the Config that exists
Reload ==
    /\ pc = "args"
    /\ loads < MaxLoads
    /\ cfg' = load_from_file(cfg, doc)
    /\ loads' = loads + 1
    /\ UNCHANGED <<doc, args, pc, argi, url, selected_browser, ri, matched, opened, exc>>

InitLoad == InitWith(LoadDocs, {<<>>})

NextLoad == Construct \/ Reload

SpecLoad == InitLoad /\ [][NextLoad]_vars

(***************************** the claims **********************************)
\* a call of select_and_open has returned, the last one being for args[argi]
Returned == pc \in {"args", "exit"} /\ argi > 0

Max(S) == CHOOSE x \in S : \A y \in S : y <= x

\* the rules among those that matched in this call that carry a string browser_id
MatchedWithBrowser ==
    {k \in matched : k <= Len(cfg.rules) /\ cfg.rules[k].browser_id.kind = "str"}

\* the browser the claim C1 names: that of the last rule that matched and
\* carries a browser_id, or the default
LastMatchingBrowser ==
    IF MatchedWithBrowser = {} THEN cfg.browser_default
    ELSE cfg.rules[Max(MatchedWithBrowser)].browser_id

C2_NoMatchIsIdentity ==
    (Returned /\ matched = {}) =>
        opened[argi] = [browser |-> cfg.browser_default, url |-> args[argi]]

\* C2: a returned call whose rules include a usable pattern, none of which
\* matched, with a default browser taken from the document
C2_Witness ==
    /\ Returned
    /\ matched = {}
    /\ \E k \in 1..Len(cfg.rules) :
          /\ cfg.rules[k].url_pattern.kind = "str"
          /\ cfg.rules[k].url_replace.kind = "str"
          /\ cfg.rules[k].browser_id.kind = "str"
    /\ cfg.browser_default # BROWSER_DEFAULT
    /\ opened[argi] = [browser |-> Str(Chrome), url |-> args[argi]]

RECURSIVE UrlAfter(_, _, _)
\* the substitutions of the first k rules applied one after the other to u0,
\* each rule searched in, and substituted in, the result of the rules before it
UrlAfter(rules, u0, k) ==
    IF k = 0 THEN u0
    ELSE LET prev == UrlAfter(rules, u0, k - 1)
             r == rules[k]
         IN IF /\ r.url_pattern.kind = "str"
               /\ r.url_replace.kind = "str"
               /\ "(" \notin Range(r.url_pattern.str)
               /\ Search(r.url_pattern.str, prev)
            THEN Sub(r.url_pattern.str, r.url_replace.str, prev)
            ELSE prev

\* C3: the current URL is the input with the substitutions of the rules
\* evaluated so far applied in sequence, each to the result of the one before;
\* the URL a returned call opened is that sequence over the whole rule list.
C3_RewritesCompose ==
    /\ pc = "rules" => url = UrlAfter(cfg.rules, args[argi + 1], ri - 1)
    /\ Returned => opened[argi].url = UrlAfter(cfg.rules, args[argi], Len(cfg.rules))

\* C3: rule A rewrote the input, rule B does not match the input but matched
\* and rewrote A's result, and the URL opened is B's substitution of A's
C3_Witness ==
    /\ Returned
    /\ Len(cfg.rules) = 2
    /\ matched = {1, 2}
    /\ cfg.rules[1].url_replace.kind = "str"
    /\ cfg.rules[2].url_replace.kind = "str"
    /\ ~Search(cfg.rules[2].url_pattern.str, args[argi])
    /\ opened[argi].url =
          Sub(cfg.rules[2].url_pattern.str, cfg.rules[2].url_replace.str,
              Sub(cfg.rules[1].url_pattern.str, cfg.rules[1].url_replace.str, args[argi]))
    /\ opened[argi].url # args[argi]

\* the pass of the loop for the rule at ri is about to run
AtRule == pc = "rules" /\ ri <= Len(cfg.rules)

\* the rule at ri has a string pattern that does not compile
BadPattern ==
    /\ cfg.rules[ri].url_pattern.kind = "str"
    /\ "(" \in Range(cfg.rules[ri].url_pattern.str)

\* the rule at ri has a string pattern that compiles and is found in url
Hit ==
    /\ cfg.rules[ri].url_pattern.kind = "str"
    /\ ~BadPattern
    /\ Search(cfg.rules[ri].url_pattern.str, url)

\* C4: the pass of the loop for a rule whose pattern does not compile goes on
\* to the next rule and changes neither the URL nor the selected browser.
C4_BadPatternIsNonMatch ==
    [][(AtRule /\ BadPattern) =>
          (pc' = "rules" /\ ri' = ri + 1 /\ url' = url
           /\ selected_browser' = selected_browser)]_vars

\* C9: a pass of the loop for a rule without a string pattern, or whose
\* pattern is not found in the URL, changes neither the URL nor the selected
\* browser; a pass for a rule without a string url_replace leaves the URL, and
\* one for a rule without a string browser_id leaves the selected browser.
C9_RuleStepFrame ==
    [][AtRule =>
          /\ ~Hit => (url' = url /\ selected_browser' = selected_browser)
          /\ cfg.rules[ri].url_replace.kind # "str" => url' = url
          /\ cfg.rules[ri].browser_id.kind # "str" =>
                selected_browser' = selected_browser]_vars

\* C9: after two passes, the first for a rule that matched and set the browser
\* without rewriting, the second for a rule that has only a browser_id, another
\* one: the URL is the input and the browser the first rule's
C9_Witness ==
    /\ pc = "rules"
    /\ ri = 3
    /\ matched = {1}
    /\ cfg.rules[1].url_replace.kind = "absent"
    /\ cfg.rules[1].browser_id.kind = "str"
    /\ cfg.rules[2].url_pattern.kind = "absent"
    /\ cfg.rules[2].browser_id.kind = "str"
    /\ cfg.rules[2].browser_id # cfg.rules[1].browser_id
    /\ selected_browser = cfg.rules[1].browser_id
    /\ url = args[argi + 1]

\* the program has ended, normally or by an uncaught exception
Ended == pc \in {"exit", "raised"}

\* webbrowser.get finds a browser for the default and for every rule's id
BrowsersResolve ==
    /\ GetError(cfg.browser_default) = "none"
    /\ \A k \in 1..Len(cfg.rules) :
          cfg.rules[k].browser_id.kind = "str" => GetError(cfg.rules[k].browser_id) = "none"

\* C10: when the program has ended, with a configuration whose browser ids
\* all resolve, the launcher has been invoked once per argument, in the order
\* of the arguments, each time with the URL resolved for that argument.
C10_OneLaunchPerArgument ==
    (Ended /\ BrowsersResolve) =>
        /\ Len(opened) = Len(args)
        /\ \A k \in 1..Len(opened) :
              opened[k].url = UrlAfter(cfg.rules, args[k], Len(cfg.rules))

(************************ the claims on the loader *************************)
Fields == {"browser_id", "url_pattern", "url_replace"}

\* the elements of the document's rules, when it has a sequence of them
DocItems == IF doc.kind = "map" /\ doc.rules.kind = "seq" THEN doc.rules.items ELSE <<>>

\* C5 as stated: every retained rule has a field that is a string.
C5_RetainedRuleHasStringField ==
    \A k \in 1..Len(cfg.rules) : \E f \in Fields : cfg.rules[k][f].kind = "str"

\* C5 as amended: every retained rule has at least one of the three keys, with
\* a value of any type; a mapping with none of the three keys is not retained,
\* so that after one load there are at most as many rules as there are
\* elements with a key.
C5_RetainedRuleHasKey ==
    /\ \A k \in 1..Len(cfg.rules) : \E f \in Fields : cfg.rules[k][f].kind # "absent"
    /\ loads = 1 =>
          Len(cfg.rules) <= Cardinality({k \in 1..Len(DocItems) :
                                \E f \in Fields : DocItems[k][f].kind # "absent"})

\* C5: a document with a mapping without any key and a mapping with only a
\* wrong-typed field has been loaded: the first is dropped, the second kept
C5_Witness ==
    /\ loads = 1
    /\ Len(DocItems) = 2
    /\ DocItems[1] = Elem(Absent, Absent, Absent)
    /\ DocItems[2] = Elem(Int, Absent, Absent)
    /\ cfg.rules = <<RuleOf(DocItems[2])>>

\* C6: after loading, default_browser_id is basic.browser_id when that is
\* present and a string, and the constant BROWSER_DEFAULT in every other case.
C6_DefaultIsStringOrFallback ==
    pc # "start" =>
        cfg.browser_default =
            IF /\ doc.kind = "map"
               /\ doc.basic.kind = "map"
               /\ doc.basic.browser_id.kind = "str"
            THEN doc.basic.browser_id
            ELSE BROWSER_DEFAULT

RECURSIVE WithKey(_)
\* the elements of items that are mappings with at least one of the three
\* keys, in document order
WithKey(items) ==
    IF items = <<>> THEN <<>>
    ELSE LET e == Head(items) IN
         IF e.kind = "map" /\ \E f \in Fields : e[f].kind # "absent"
         THEN <<RuleOf(e)>> \o WithKey(Tail(items))
         ELSE WithKey(Tail(items))

\* C7: after one load the rule list is exactly the elements of rules with at
\* least one field, in document order, whatever the other elements and the
\* basic section are.
C7_RulesAreElementsWithField ==
    loads = 1 => cfg.rules = WithKey(DocItems)

\* C8: a Config that the same document has been loaded into more than once
\* equals a fresh Config of that document.
C8_LoadIsIdempotent ==
    loads >= 1 => cfg = NewConfig(doc)

====
